---- MODULE Spec2Model ----
(***************************************************************************)
(* Model of blob-util (src/src/blob-util.ts).                               *)
(*                                                                         *)
(* Strings are sequences of UTF-16 code units (naturals), byte buffers are *)
(* sequences of naturals in 0..255.  A binary object (Blob) is a record    *)
(* [type, bytes].  Host primitives (Blob, BlobBuilder, FileReader, atob,   *)
(* btoa, URL, Image, canvas) are modelled by what the web platform does at *)
(* the place the library calls them.                                       *)
(***************************************************************************)
EXTENDS Integers, Sequences, FiniteSets, TLC

\* ------------------------------------------------------------------ bounds
MaxLen == 3
MaxParts == 2
MaxHandles == 3

\* sample bytes: both ends of the range, an ASCII letter, the high bit, and
\* values whose base64 groups hit '+' and '/'
ByteSample == {0, 65, 251, 255}

RECURSIVE SeqsUpTo(_, _)
SeqsUpTo(S, n) ==
  IF n = 0 THEN {<<>>}
  ELSE LET shorter == SeqsUpTo(S, n - 1)
       IN shorter \cup {Append(s, x) : s \in {t \in shorter : Len(t) = n - 1}, x \in S}

RECURSIVE Concat(_)
Concat(ss) == IF ss = <<>> THEN <<>> ELSE Head(ss) \o Concat(Tail(ss))

\* ------------------------------------------------------------ ByteCodec

Uint8Store_Signed(v) == v % 128

\* arr[i] = v on a Uint8Array stores v modulo 2^8
Uint8Store(v) == v % 256

RECURSIVE binaryStringToArrayBuffer(_)
binaryStringToArrayBuffer(binary) ==
  IF binary = <<>> THEN <<>>
  ELSE <<Uint8Store(Head(binary))>> \o binaryStringToArrayBuffer(Tail(binary))

\* String.fromCharCode(n) is the one code unit n modulo 2^16
FromCharCode(n) == n % 65536

RECURSIVE arrayBufferToBinaryString(_)
arrayBufferToBinaryString(bytes) ==
  IF bytes = <<>> THEN <<>>
  ELSE <<FromCharCode(Head(bytes))>> \o arrayBufferToBinaryString(Tail(bytes))

\* ------------------------------------------------- host base64 codec

\* the base64 alphabet: A-Z a-z 0-9 + /
B64Char(i) ==
  IF i < 26 THEN 65 + i
  ELSE IF i < 52 THEN 97 + (i - 26)
  ELSE IF i < 62 THEN 48 + (i - 52)
  ELSE IF i = 62 THEN 43 ELSE 47

B64Index(c) ==
  IF c >= 65 /\ c <= 90 THEN c - 65
  ELSE IF c >= 97 /\ c <= 122 THEN c - 97 + 26
  ELSE IF c >= 48 /\ c <= 57 THEN c - 48 + 52
  ELSE IF c = 43 THEN 62
  ELSE IF c = 47 THEN 63 ELSE -1

PadChar == <<61>>

RECURSIVE B64Encode(_)
B64Encode(b) ==
  IF Len(b) = 0 THEN <<>>
  ELSE IF Len(b) = 1 THEN
    <<B64Char(b[1] \div 4), B64Char((b[1] % 4) * 16)>> \o PadChar \o PadChar
  ELSE IF Len(b) = 2 THEN
    <<B64Char(b[1] \div 4), B64Char((b[1] % 4) * 16 + b[2] \div 16),
      B64Char((b[2] % 16) * 4)>> \o PadChar
  ELSE
    <<B64Char(b[1] \div 4), B64Char((b[1] % 4) * 16 + b[2] \div 16),
      B64Char((b[2] % 16) * 4 + b[3] \div 64), B64Char(b[3] % 64)>>
    \o B64Encode(SubSeq(b, 4, Len(b)))

\* btoa: throws InvalidCharacterError when a code unit is above 255
btoa(s) ==
  IF \E i \in 1..Len(s) : s[i] > 255
  THEN [ok |-> FALSE, val |-> <<>>, err |-> "InvalidCharacterError"]
  ELSE [ok |-> TRUE, val |-> B64Encode(s), err |-> ""]

IsAsciiWhitespace(c) == c \in {9, 10, 12, 13, 32}

RECURSIVE StripWhitespace(_)
StripWhitespace(s) ==
  IF s = <<>> THEN <<>>
  ELSE IF IsAsciiWhitespace(Head(s)) THEN StripWhitespace(Tail(s))
  ELSE <<Head(s)>> \o StripWhitespace(Tail(s))

StripPadding(s) ==
  IF Len(s) > 0 /\ Len(s) % 4 = 0 /\ s[Len(s)] = PadChar[1]
  THEN IF Len(s) > 1 /\ s[Len(s) - 1] = PadChar[1]
       THEN SubSeq(s, 1, Len(s) - 2)
       ELSE SubSeq(s, 1, Len(s) - 1)
  ELSE s

RECURSIVE B64Decode(_)
B64Decode(c) ==
  IF Len(c) < 2 THEN <<>>
  ELSE IF Len(c) = 2 THEN
    <<B64Index(c[1]) * 4 + B64Index(c[2]) \div 16>>
  ELSE IF Len(c) = 3 THEN
    <<B64Index(c[1]) * 4 + B64Index(c[2]) \div 16,
      (B64Index(c[2]) % 16) * 16 + B64Index(c[3]) \div 4>>
  ELSE
    <<B64Index(c[1]) * 4 + B64Index(c[2]) \div 16,
      (B64Index(c[2]) % 16) * 16 + B64Index(c[3]) \div 4,
      (B64Index(c[3]) % 4) * 64 + B64Index(c[4])>>
    \o B64Decode(SubSeq(c, 5, Len(c)))

\* atob: the forgiving-base64 decode of the platform
atob(s) ==
  LET d == StripPadding(StripWhitespace(s))
  IN IF Len(d) % 4 = 1 \/ (\E i \in 1..Len(d) : B64Index(d[i]) = -1)
     THEN [ok |-> FALSE, val |-> <<>>, err |-> "InvalidCharacterError"]
     ELSE [ok |-> TRUE, val |-> B64Decode(d), err |-> ""]

\* ------------------------------------------------- host Blob and builders

\* the Blob constructor's type normalisation: characters outside
\* U+0020..U+007E give the empty type, otherwise ASCII-lowercased
HostBlobType(t) ==
  IF \E i \in 1..Len(t) : t[i] < 32 \/ t[i] > 126 THEN <<>>
  ELSE [i \in 1..Len(t) |-> IF t[i] >= 65 /\ t[i] <= 90 THEN t[i] + 32 ELSE t[i]]

NoLog == <<>>
NoType == [hasType |-> FALSE, type |-> <<>>]

Thrown(e, log) ==
  [kind |-> "throw", type |-> <<>>, bytes |-> <<>>, err |-> e, log |-> log]

Returned(t, b, log) ==
  [kind |-> "blob", type |-> t, bytes |-> b, err |-> "", log |-> log]

\* new Blob(parts, properties) in a host whose constructor behaves as
\* env.blob says: "ok", or the name of the error it raises
NewBlob(env, parts, properties) ==
  IF env.blob = "ok"
  THEN Returned(IF properties.hasType THEN HostBlobType(properties.type) ELSE <<>>,
                Concat(parts), NoLog)
  ELSE Thrown(env.blob, NoLog)

BuilderOrder == <<"BlobBuilder", "MSBlobBuilder", "MozBlobBuilder", "WebKitBlobBuilder">>

SelectBuilder_Reversed(present) ==
  IF "WebKitBlobBuilder" \in present THEN "WebKitBlobBuilder"
  ELSE IF "MozBlobBuilder" \in present THEN "MozBlobBuilder"
  ELSE IF "MSBlobBuilder" \in present THEN "MSBlobBuilder"
  ELSE "BlobBuilder"

\* the conditional chain of typeof tests; the last name is used untested
SelectBuilder(present) ==
  IF "BlobBuilder" \in present THEN "BlobBuilder"
  ELSE IF "MSBlobBuilder" \in present THEN "MSBlobBuilder"
  ELSE IF "MozBlobBuilder" \in present THEN "MozBlobBuilder"
  ELSE "WebKitBlobBuilder"

LogEntry(op, name, part, type) ==
  [op |-> op, name |-> name, part |-> part, type |-> type]

\* for (i = 0; i < parts.length; i += 1) builder.append(parts[i])
AppendLoop(name, parts) ==
  [i \in 1..Len(parts) |-> LogEntry("append", name, parts[i], <<>>)]

\* what a legacy builder holds after the calls of the log
RECURSIVE BuilderContent(_)
BuilderContent(log) ==
  IF log = <<>> THEN <<>>
  ELSE (IF Head(log).op = "append" THEN Head(log).part ELSE <<>>)
       \o BuilderContent(Tail(log))

LegacyBuild_NoBuilderEmpty(env, parts, properties) ==
  LET name == SelectBuilder(env.builders)
  IN IF name \notin env.builders
     THEN Returned(<<>>, <<>>, NoLog)
     ELSE LET log == <<LogEntry("lookup", name, <<>>, <<>>),
                       LogEntry("new", name, <<>>, <<>>)>> \o AppendLoop(name, parts)
              t == IF properties.hasType THEN properties.type ELSE <<>>
          IN Returned(HostBlobType(t), BuilderContent(log),
                      log \o <<LogEntry("getBlob", name, <<>>, t)>>)

LegacyBuild(env, parts, properties) ==
  LET name == SelectBuilder(env.builders)
  IN IF name \notin env.builders
     THEN Thrown("ReferenceError", <<LogEntry("lookup", name, <<>>, <<>>)>>)
     ELSE LET log == <<LogEntry("lookup", name, <<>>, <<>>),
                       LogEntry("new", name, <<>>, <<>>)>> \o AppendLoop(name, parts)
              t == IF properties.hasType THEN properties.type ELSE <<>>
          IN Returned(HostBlobType(t), BuilderContent(log),
                      log \o <<LogEntry("getBlob", name, <<>>, t)>>)

\* parts = parts || []
PartsOrEmpty(partsArg) == IF partsArg.def THEN partsArg.items ELSE <<>>

\* properties = properties || {}; a string becomes { type: properties }
NormalizeProperties(propsArg) ==
  IF propsArg.kind = "str" /\ propsArg.type # <<>>
  THEN [hasType |-> TRUE, type |-> propsArg.type]
  ELSE IF propsArg.kind = "obj"
  THEN [hasType |-> TRUE, type |-> propsArg.type]
  ELSE NoType

FallbackGate_AnyError(e) == TRUE

FallbackGate(e) == e = "TypeError"

createBlob(env, partsArg, propsArg) ==
  LET parts == PartsOrEmpty(partsArg)
      properties == NormalizeProperties(propsArg)
      first == NewBlob(env, parts, properties)
  IN IF first.kind = "blob" THEN first
     ELSE IF ~FallbackGate(first.err) THEN first
     ELSE LegacyBuild(env, parts, properties)

Defined(items) == [def |-> TRUE, items |-> items]
UndefinedParts == [def |-> FALSE, items |-> <<>>]
PropsUndefined == [kind |-> "undef", type |-> <<>>]
PropsString(t) == [kind |-> "str", type |-> t]
PropsObject(t) == [kind |-> "obj", type |-> t]
PropsEmptyObject == [kind |-> "emptyobj", type |-> <<>>]

\* ------------------------------------------------------ data URLs

DataColon == <<100, 97, 116, 97, 58>>                       \* "data:"
SemiBase64Comma == <<59, 98, 97, 115, 101, 54, 52, 44>>     \* ";base64,"
Semicolon == <<59>>
Comma == <<44>>

SetMin(S) == CHOOSE x \in S : \A y \in S : x <= y
SetMax(S) == CHOOSE x \in S : \A y \in S : x >= y

\* dataURL.match(/data:([^;]+)/): the leftmost "data:" followed by at least
\* one character other than ';', and the longest run of such characters
MatchDataType(s) ==
  LET starts == {i \in 1..Len(s) :
                   /\ i + 5 <= Len(s)
                   /\ SubSeq(s, i, i + 4) = DataColon
                   /\ s[i + 5] # Semicolon[1]}
  IN IF starts = {} THEN [ok |-> FALSE, val |-> <<>>]
     ELSE LET b == SetMin(starts) + 5
              e == SetMax({j \in b..Len(s) : \A k \in b..j : s[k] # Semicolon[1]})
          IN [ok |-> TRUE, val |-> SubSeq(s, b, e)]

\* dataURL.replace(/^[^,]+,/, ''): drops the prefix through the first comma
\* when at least one character precedes it
StripToComma(s) ==
  LET commas == {i \in 1..Len(s) : s[i] = Comma[1]}
  IN IF commas = {} \/ SetMin(commas) = 1 THEN s
     ELSE SubSeq(s, SetMin(commas) + 1, Len(s))

dataURLToBlob(env, dataURL) ==
  LET m == MatchDataType(dataURL)
      a == atob(StripToComma(dataURL))
  IN IF ~m.ok THEN Thrown("TypeError", NoLog)
     ELSE IF ~a.ok THEN Thrown(a.err, NoLog)
     ELSE createBlob(env, Defined(<<binaryStringToArrayBuffer(a.val)>>), PropsObject(m.val))

\* 'data:' + blob.type + ';base64,' + base64String
FormatDataURL(type, base64String) ==
  DataColon \o type \o SemiBase64Comma \o base64String

\* type ? createBlob(parts, { type: type }) : createBlob(parts)
base64StringToBlob(env, base64, type) ==
  LET a == atob(base64)
  IN IF ~a.ok THEN Thrown(a.err, NoLog)
     ELSE IF type # <<>>
     THEN createBlob(env, Defined(<<binaryStringToArrayBuffer(a.val)>>), PropsObject(type))
     ELSE createBlob(env, Defined(<<binaryStringToArrayBuffer(a.val)>>), PropsUndefined)

binaryStringToBlob(env, binary, type) ==
  LET b == btoa(binary)
  IN IF ~b.ok THEN Thrown(b.err, NoLog)
     ELSE base64StringToBlob(env, b.val, type)

\* ------------------------------------------------------ promises

\* values carried by host objects and promises are tagged with what they are
Null == [kind |-> "null", data |-> <<>>]
Str(s) == [kind |-> "str", data |-> s]
Buf(b) == [kind |-> "buf", data |-> b]

NoPromise == [state |-> "none", val |-> Null, err |-> "", settles |-> 0]
NewPromise == [state |-> "pending", val |-> Null, err |-> "", settles |-> 0]

\* the resolve and reject functions of a promise act only while it is pending
Resolve(p, v) ==
  IF p.state = "pending"
  THEN [state |-> "fulfilled", val |-> v, err |-> "", settles |-> p.settles + 1]
  ELSE p

Reject(p, e) ==
  IF p.state = "pending"
  THEN [state |-> "rejected", val |-> Null, err |-> e, settles |-> p.settles + 1]
  ELSE p

Settled(p) == p.state \in {"fulfilled", "rejected"}

\* p.then(f) for a synchronous f that returns [ok, val, err]: q settles after p
Then(p, q, fval) ==
  IF p.state = "rejected" THEN Reject(q, p.err)
  ELSE IF fval.ok THEN Resolve(q, fval.val)
  ELSE Reject(q, fval.err)

\* ------------------------------------------------------ AsyncReader

\* hasBinaryString ? reader.readAsBinaryString(blob) : reader.readAsArrayBuffer(blob)
ReaderStart(hasBinaryString) ==
  [state |-> "reading",
   mode |-> IF hasBinaryString THEN "binaryString" ELSE "arrayBuffer",
   result |-> Null, err |-> ""]

\* what the host FileReader leaves in reader.result after a successful read
HostReadResult(blob, mode) ==
  IF mode = "binaryString" THEN Str(blob.bytes) ELSE Buf(blob.bytes)

\* e.target.result || ''
OrEmptyString(result) ==
  IF result.kind = "null" \/ (result.kind = "str" /\ result.data = <<>>)
  THEN Str(<<>>) ELSE result

\* new Uint8Array(x): the bytes of a buffer; of the strings only '' reaches
\* this call, and ToIndex('') is 0
Uint8ArrayOf(x) == IF x.kind = "buf" THEN x.data ELSE <<>>

ReaderOnLoadEnd_NoDecode(p, result, hasBinaryString) ==
  Resolve(p, OrEmptyString(result))

\* reader.onloadend of blobToBinaryString
ReaderOnLoadEnd(p, result, hasBinaryString) ==
  IF hasBinaryString THEN Resolve(p, OrEmptyString(result))
  ELSE Resolve(p, Str(arrayBufferToBinaryString(Uint8ArrayOf(OrEmptyString(result)))))

ReaderOnError_Unwired(p, e) == p

\* reader.onerror = reject
ReaderOnError(p, e) == Reject(p, e)

\* ------------------------------------------------------ state

VARIABLES
  cIn, cStr, cOut, cPc,                                  \* codec round trip
  kEnv, kIn, kOut,                                       \* createBlob calls
  rEnv, rIn, rOp, rBlob, reader, p1, p2, p3, rOut,       \* FileReader reads
  uEnv, uStore, uIssued, uRevoked, uLast,                \* object URLs
  iEnv, iOp, iArgs, pLoad, pCanvas, pInner, pOut, iLog   \* image pipeline

codecVars == <<cIn, cStr, cOut, cPc>>
createVars == <<kEnv, kIn, kOut>>
readerVars == <<rEnv, rIn, rOp, rBlob, reader, p1, p2, p3, rOut>>
urlVars == <<uEnv, uStore, uIssued, uRevoked, uLast>>
imgVars == <<iEnv, iOp, iArgs, pLoad, pCanvas, pInner, pOut, iLog>>
vars == <<codecVars, createVars, readerVars, urlVars, imgVars>>

TypeSample == { <<>>, <<97, 47, 98>>, <<97, 47, 98, 59, 99>>, <<65, 47, 98>> }  \* "", "a/b", "a/b;c", "A/b"
ErrorSample == {"NotReadableError", "NotFoundError"}

NoOutcome == [kind |-> "none", type |-> <<>>, bytes |-> <<>>, err |-> "", log |-> NoLog]
CanonicalEnv == [blob |-> "ok", builders |-> {}]

CodecIdle == cIn = <<>> /\ cStr = <<>> /\ cOut = <<>> /\ cPc = "off"
CreateIdle ==
  /\ kEnv = CanonicalEnv
  /\ kIn = [parts |-> UndefinedParts, props |-> PropsUndefined]
  /\ kOut = NoOutcome
ReaderIdle ==
  /\ rEnv = [blob |-> "ok", builders |-> {}, hasBinaryString |-> TRUE]
  /\ rIn = [str |-> <<>>, type |-> <<>>]
  /\ rOp = "off"
  /\ rBlob = NoOutcome
  /\ reader = [state |-> "idle", mode |-> "", result |-> Null, err |-> ""]
  /\ p1 = NoPromise /\ p2 = NoPromise /\ p3 = NoPromise
  /\ rOut = NoOutcome
UrlIdle ==
  /\ uEnv = [hasURL |-> TRUE, hasWebkitURL |-> FALSE]
  /\ uStore = <<>> /\ uIssued = <<>> /\ uRevoked = {} /\ uLast = "off"
ImgIdle ==
  /\ iEnv = [blob |-> "ok", builders |-> {}, hasToBlob |-> TRUE]
  /\ iOp = "off"
  /\ iArgs = [type |-> <<>>, quality |-> 0, crossOrigin |-> "", canvas |-> Null]
  /\ pLoad = NoPromise /\ pCanvas = NoPromise /\ pInner = NoPromise /\ pOut = NoPromise
  /\ iLog = <<>>

\* ------------------------------------------------------ codec round trip

CodecInit == cIn \in SeqsUpTo(ByteSample, MaxLen) /\ cStr = <<>> /\ cOut = <<>> /\ cPc = "start"

CodecEncode ==
  /\ cPc = "start"
  /\ cStr' = arrayBufferToBinaryString(cIn)
  /\ cPc' = "encoded"
  /\ UNCHANGED <<cIn, cOut>>

CodecDecode ==
  /\ cPc = "encoded"
  /\ cOut' = binaryStringToArrayBuffer(cStr)
  /\ cPc' = "done"
  /\ UNCHANGED <<cIn, cStr>>

InitCodec == CodecInit /\ CreateIdle /\ ReaderIdle /\ UrlIdle /\ ImgIdle
NextCodec ==
  \/ CodecEncode /\ UNCHANGED <<createVars, readerVars, urlVars, imgVars>>
  \/ CodecDecode /\ UNCHANGED <<createVars, readerVars, urlVars, imgVars>>
SpecCodec == InitCodec /\ [][NextCodec]_vars

\* C5: a byte sequence survives arrayBufferToBinaryString followed by
\* binaryStringToArrayBuffer unchanged (same length, same byte at every
\* index), and the intermediate string has one character per byte whose
\* code point is that byte.
C5_RoundTrip ==
  /\ cPc \in {"encoded", "done"} =>
       /\ Len(cStr) = Len(cIn)
       /\ \A i \in 1..Len(cIn) : cStr[i] = cIn[i]
  /\ cPc = "done" =>
       /\ Len(cOut) = Len(cIn)
       /\ \A i \in 1..Len(cIn) : cOut[i] = cIn[i]

C5_Witness == cPc = "done" /\ Len(cIn) >= 2 /\ cIn[1] = 255 /\ cIn[2] = 0 /\ cOut = cIn

\* ------------------------------------------------------ createBlob calls

BuilderNames == {BuilderOrder[i] : i \in 1..Len(BuilderOrder)}
BlobModes == {"ok", "TypeError", "ReferenceError", "RangeError"}
PartSample == { <<>>, <<65>>, <<0, 255>> }
PartsArgs == {UndefinedParts} \cup {Defined(ps) : ps \in SeqsUpTo(PartSample, MaxParts)}
PropsArgs ==
  {PropsUndefined, PropsEmptyObject}
    \cup {PropsString(t) : t \in TypeSample} \cup {PropsObject(t) : t \in TypeSample}

CreateInit ==
  /\ kEnv \in [blob : BlobModes, builders : SUBSET BuilderNames]
  /\ kIn = [parts |-> UndefinedParts, props |-> PropsUndefined]
  /\ kOut = NoOutcome

CreateBlobCall ==
  \E pa \in PartsArgs, pr \in PropsArgs :
    /\ kOut.kind = "none"
    /\ kIn' = [parts |-> pa, props |-> pr]
    /\ kOut' = createBlob(kEnv, pa, pr)
    /\ UNCHANGED kEnv

InitCreate == CodecIdle /\ CreateInit /\ ReaderIdle /\ UrlIdle /\ ImgIdle
NextCreate == CreateBlobCall /\ UNCHANGED <<codecVars, readerVars, urlVars, imgVars>>
SpecCreate == InitCreate /\ [][NextCreate]_vars

KCalled == kOut.kind # "none"

\* C3: when the canonical construction fails with an error that is not a
\* type error, createBlob raises that same error and touches no legacy
\* builder (no lookup, no instantiation, no append); a legacy builder is
\* touched only after a type error.
C3_OnlyTypeErrorFallsBack ==
  /\ (KCalled /\ kEnv.blob \notin {"ok", "TypeError"}) =>
       /\ kOut.kind = "throw"
       /\ kOut.err = kEnv.blob
       /\ kOut.log = <<>>
  /\ (KCalled /\ kOut.log # <<>>) => kEnv.blob = "TypeError"

C3_Witness ==
  /\ KCalled /\ kEnv.blob = "RangeError" /\ kEnv.builders = BuilderNames
  /\ kIn.parts.items # <<>>
  /\ kOut.kind = "throw" /\ kOut.err = "RangeError"

\* C4: in a host without a usable canonical constructor and without any of
\* the four legacy builders, every createBlob call raises an error and
\* returns no binary object.
C4_NoCapabilityRaises ==
  (KCalled /\ kEnv.blob \in {"ReferenceError", "TypeError"} /\ kEnv.builders = {}) =>
     kOut.kind = "throw"

C4_Witness ==
  /\ KCalled /\ kEnv.blob = "TypeError" /\ kEnv.builders = {}
  /\ kOut.kind = "throw" /\ kOut.err = "ReferenceError"

FirstPresent(present) ==
  BuilderOrder[SetMin({i \in 1..Len(BuilderOrder) : BuilderOrder[i] \in present})]

RequestedType(pr) == IF pr.kind \in {"str", "obj"} THEN pr.type ELSE <<>>

AppendsOf(log) == SelectSeq(log, LAMBDA e : e.op = "append")

\* C9: when createBlob falls back to a legacy builder and one is present, it
\* uses the first present of BlobBuilder, MSBlobBuilder, MozBlobBuilder,
\* WebKitBlobBuilder, appends each part once in index order, and returns the
\* builder's blob finalized with the requested content type, whether the
\* type came as a string or inside an options object.
C9_LegacyFallback ==
  (KCalled /\ kEnv.blob = "TypeError" /\ kEnv.builders # {}) =>
     LET ps == PartsOrEmpty(kIn.parts)
         n == Len(kOut.log)
     IN /\ kOut.kind = "blob"
        /\ \A i \in 1..n : kOut.log[i].name = FirstPresent(kEnv.builders)
        /\ Len(AppendsOf(kOut.log)) = Len(ps)
        /\ \A i \in 1..Len(ps) : AppendsOf(kOut.log)[i].part = ps[i]
        /\ kOut.log[n].op = "getBlob"
        /\ kOut.log[n].type = RequestedType(kIn.props)
        /\ \A i \in 1..(n - 1) : kOut.log[i].op # "getBlob"
        /\ kOut.bytes = Concat(ps)
        /\ kOut.type = HostBlobType(RequestedType(kIn.props))

C9_Witness ==
  /\ KCalled /\ kEnv.blob = "TypeError"
  /\ kEnv.builders = {"MozBlobBuilder", "WebKitBlobBuilder"}
  /\ kIn.props.kind = "str" /\ kIn.props.type # <<>>
  /\ Len(kIn.parts.items) = 2 /\ kIn.parts.items[1] # kIn.parts.items[2]
  /\ kOut.kind = "blob" /\ kOut.log[1].name = "MozBlobBuilder"

\* ------------------------------------------------------ FileReader reads

ReaderEnvs ==
  {[blob |-> b.blob, builders |-> b.builders, hasBinaryString |-> h] :
     b \in {CanonicalEnv, [blob |-> "TypeError", builders |-> {"WebKitBlobBuilder"}]},
     h \in BOOLEAN}

ReaderInit ==
  /\ rEnv \in ReaderEnvs
  /\ rIn \in [str : SeqsUpTo(ByteSample, MaxLen), type : TypeSample]
  /\ rOp = "idle"
  /\ rBlob = NoOutcome
  /\ reader = [state |-> "idle", mode |-> "", result |-> Null, err |-> ""]
  /\ p1 = NoPromise /\ p2 = NoPromise /\ p3 = NoPromise
  /\ rOut = NoOutcome

\* the caller holds a binary object o and calls blobToDataURL(o)
StartBlobToDataURL ==
  /\ rOp = "idle"
  /\ rOp' = "dataURL"
  /\ rBlob' = Returned(HostBlobType(rIn.type), rIn.str, NoLog)
  /\ reader' = ReaderStart(rEnv.hasBinaryString)
  /\ p1' = NewPromise /\ p2' = NewPromise /\ p3' = NewPromise
  /\ UNCHANGED <<rEnv, rIn, rOut>>

\* the caller calls blobToBinaryString(binaryStringToBlob(s, t))
StartBinaryStringRoundTrip ==
  /\ rOp = "idle"
  /\ LET b == binaryStringToBlob(rEnv, rIn.str, rIn.type)
     IN /\ rBlob' = b
        /\ IF b.kind = "blob"
           THEN /\ rOp' = "binStr"
                /\ reader' = ReaderStart(rEnv.hasBinaryString)
                /\ p1' = NewPromise
           ELSE /\ rOp' = "threw"
                /\ UNCHANGED <<reader, p1>>
  /\ UNCHANGED <<rEnv, rIn, p2, p3, rOut>>

\* the host finishes the read: the load event has no handler
HostLoad ==
  /\ reader.state = "reading"
  /\ reader' = [reader EXCEPT !.state = "loaded",
                              !.result = HostReadResult(rBlob, reader.mode)]
  /\ UNCHANGED <<rEnv, rIn, rOp, rBlob, p1, p2, p3, rOut>>

\* the host fails the read: the error event runs reader.onerror
HostError ==
  \E e \in ErrorSample :
    /\ reader.state = "reading"
    /\ reader' = [reader EXCEPT !.state = "failed", !.result = Null, !.err = e]
    /\ p1' = ReaderOnError(p1, e)
    /\ UNCHANGED <<rEnv, rIn, rOp, rBlob, p2, p3, rOut>>

\* the loadend event follows load or error and runs reader.onloadend
HostLoadEnd ==
  /\ reader.state \in {"loaded", "failed"}
  /\ reader' = [reader EXCEPT !.state = "done"]
  /\ p1' = ReaderOnLoadEnd(p1, reader.result, rEnv.hasBinaryString)
  /\ UNCHANGED <<rEnv, rIn, rOp, rBlob, p2, p3, rOut>>

\* blobToBase64String: blobToBinaryString(blob).then(btoa)
ThenBtoa ==
  /\ Settled(p1) /\ p2.state = "pending"
  /\ p2' = Then(p1, p2, LET b == btoa(p1.val.data)
                        IN [ok |-> b.ok, val |-> Str(b.val), err |-> b.err])
  /\ UNCHANGED <<rEnv, rIn, rOp, rBlob, reader, p1, p3, rOut>>

\* blobToDataURL: blobToBase64String(blob).then(format)
ThenFormat ==
  /\ Settled(p2) /\ p3.state = "pending"
  /\ p3' = Then(p2, p3, [ok |-> TRUE, err |-> "",
                         val |-> Str(FormatDataURL(rBlob.type, p2.val.data))])
  /\ UNCHANGED <<rEnv, rIn, rOp, rBlob, reader, p1, p2, rOut>>

\* the caller applies dataURLToBlob to the string blobToDataURL resolved with
ApplyDataURLToBlob ==
  /\ p3.state = "fulfilled" /\ rOut.kind = "none"
  /\ rOut' = dataURLToBlob(rEnv, p3.val.data)
  /\ UNCHANGED <<rEnv, rIn, rOp, rBlob, reader, p1, p2, p3>>

InitReader == CodecIdle /\ CreateIdle /\ ReaderInit /\ UrlIdle /\ ImgIdle
NextReader ==
  \/ StartBlobToDataURL /\ UNCHANGED <<codecVars, createVars, urlVars, imgVars>>
  \/ StartBinaryStringRoundTrip /\ UNCHANGED <<codecVars, createVars, urlVars, imgVars>>
  \/ HostLoad /\ UNCHANGED <<codecVars, createVars, urlVars, imgVars>>
  \/ HostError /\ UNCHANGED <<codecVars, createVars, urlVars, imgVars>>
  \/ HostLoadEnd /\ UNCHANGED <<codecVars, createVars, urlVars, imgVars>>
  \/ ThenBtoa /\ UNCHANGED <<codecVars, createVars, urlVars, imgVars>>
  \/ ThenFormat /\ UNCHANGED <<codecVars, createVars, urlVars, imgVars>>
  \/ ApplyDataURLToBlob /\ UNCHANGED <<codecVars, createVars, urlVars, imgVars>>
SpecReader == InitReader /\ [][NextReader]_vars

\* C1: for every binary object whose read succeeds, dataURLToBlob applied to
\* the string blobToDataURL resolves with returns a binary object with the
\* same content type and the same bytes.
C1_DataURLRoundTrip ==
  (rOp = "dataURL" /\ rOut.kind # "none") =>
     /\ rOut.kind = "blob"
     /\ rOut.type = rBlob.type
     /\ rOut.bytes = rBlob.bytes

\* C2: the future of blobToBinaryString settles at most once, has settled
\* exactly once when loadend has been handled, and once the host has
\* signalled an error it is rejected with that error, before and after the
\* loadend that follows, on the text-read path and on the buffer-read path.
C2_SettlesOnce ==
  /\ p1.settles <= 1
  /\ reader.state = "done" => p1.settles = 1 /\ Settled(p1)
  /\ reader.err # "" => p1.state = "rejected" /\ p1.err = reader.err
  /\ (reader.state = "done" /\ reader.err = "") => p1.state = "fulfilled"

C2_Witness ==
  /\ reader.state = "done" /\ reader.mode = "arrayBuffer"
  /\ reader.err = "NotFoundError" /\ p1.state = "rejected" /\ p1.settles = 1

\* C6: blobToBinaryString(binaryStringToBlob(s, t)) resolves to exactly s
\* when the read succeeds, on a host with the direct text read and on a
\* host with only the buffer read.
C6_BinaryStringRoundTrip ==
  (rOp = "binStr" /\ p1.state = "fulfilled") => p1.val = Str(rIn.str)

C6_Witness ==
  /\ rOp = "binStr" /\ p1.state = "fulfilled" /\ ~rEnv.hasBinaryString
  /\ Len(rIn.str) = 2 /\ rIn.str[1] = 255 /\ rIn.type # <<>>
  /\ p1.val.data = rIn.str

C6_WitnessEmpty ==
  /\ rOp = "binStr" /\ p1.state = "fulfilled" /\ rEnv.hasBinaryString
  /\ rIn.str = <<>> /\ p1.val = Str(<<>>)

\* ------------------------------------------------------ object URLs

\* the host's blob URL store: handles are positions, never reused
HostRegister(store, blob) == Append(store, [blob |-> blob, live |-> TRUE])

HostRevoke(store, h) ==
  IF h \in 1..Len(store) THEN [store EXCEPT ![h].live = FALSE] ELSE store

\* what fetching the handle yields: the object's bytes, or a network error
HostResolve(store, h) ==
  IF h \in 1..Len(store) /\ store[h].live THEN Buf(store[h].blob.bytes) ELSE Null

ProviderPresent(env, name) ==
  IF name = "URL" THEN env.hasURL ELSE env.hasWebkitURL

\* (typeof URL !== 'undefined' ? URL : webkitURL).createObjectURL(blob)
createObjectURL(env, store, blob) ==
  LET provider == IF env.hasURL THEN "URL" ELSE "webkitURL"
  IN IF ProviderPresent(env, provider)
     THEN [err |-> "", store |-> HostRegister(store, blob), handle |-> Len(store) + 1]
     ELSE [err |-> "ReferenceError", store |-> store, handle |-> 0]

revokeObjectURL_CanonicalOnly(env, store, url) ==
  IF ProviderPresent(env, "URL")
  THEN [err |-> "", store |-> HostRevoke(store, url)]
  ELSE [err |-> "ReferenceError", store |-> store]

\* (typeof URL !== 'undefined' ? URL : webkitURL).revokeObjectURL(url)
revokeObjectURL(env, store, url) ==
  LET provider == IF env.hasURL THEN "URL" ELSE "webkitURL"
  IN IF ProviderPresent(env, provider)
     THEN [err |-> "", store |-> HostRevoke(store, url)]
     ELSE [err |-> "ReferenceError", store |-> store]

BlobSample ==
  { [type |-> <<>>, bytes |-> <<>>],
    [type |-> <<97, 47, 98>>, bytes |-> <<65>>],
    [type |-> <<>>, bytes |-> <<0, 255>>] }

UrlInit ==
  /\ uEnv \in [hasURL : BOOLEAN, hasWebkitURL : BOOLEAN]
  /\ uStore = <<>> /\ uIssued = <<>> /\ uRevoked = {} /\ uLast = "idle"

CreateObjectURLCall ==
  \E b \in BlobSample :
    /\ Len(uStore) < MaxHandles
    /\ LET r == createObjectURL(uEnv, uStore, b)
       IN /\ uStore' = r.store
          /\ uLast' = IF r.err = "" THEN "ok" ELSE r.err
          /\ uIssued' = IF r.err = "" THEN Append(uIssued, [handle |-> r.handle, blob |-> b])
                        ELSE uIssued
    /\ UNCHANGED <<uEnv, uRevoked>>

\* any handle may be passed: live, already revoked, or (0) a string the host
\* never issued; the host's handles are unguessable, so a handle it has yet
\* to issue cannot be passed
RevokeObjectURLCall ==
  \E h \in 0..Len(uStore) :
    /\ LET r == revokeObjectURL(uEnv, uStore, h)
       IN /\ uStore' = r.store
          /\ uLast' = IF r.err = "" THEN "ok" ELSE r.err
    /\ uRevoked' = uRevoked \cup {h}
    /\ UNCHANGED <<uEnv, uIssued>>

InitUrl == CodecIdle /\ CreateIdle /\ ReaderIdle /\ UrlInit /\ ImgIdle
NextUrl ==
  \/ CreateObjectURLCall /\ UNCHANGED <<codecVars, createVars, readerVars, imgVars>>
  \/ RevokeObjectURLCall /\ UNCHANGED <<codecVars, createVars, readerVars, imgVars>>
SpecUrl == InitUrl /\ [][NextUrl]_vars

\* C7: over any sequence of createObjectURL and revokeObjectURL calls, no two
\* registrations got the same handle, a handle issued and not passed to
\* revokeObjectURL resolves to the bytes of its binary object, a handle passed
\* to revokeObjectURL resolves to nothing, and where only the prefixed
\* webkitURL exists the calls go through it without raising.
C7_ObjectURLs ==
  /\ \A i, j \in 1..Len(uIssued) : i # j => uIssued[i].handle # uIssued[j].handle
  /\ \A i \in 1..Len(uIssued) :
       IF uIssued[i].handle \in uRevoked
       THEN HostResolve(uStore, uIssued[i].handle) = Null
       ELSE HostResolve(uStore, uIssued[i].handle) = Buf(uIssued[i].blob.bytes)
  /\ (uEnv.hasURL \/ uEnv.hasWebkitURL) => uLast \in {"idle", "ok"}

C7_Witness ==
  /\ ~uEnv.hasURL /\ uEnv.hasWebkitURL
  /\ Len(uIssued) = 3 /\ uIssued[1].blob = uIssued[2].blob
  /\ uRevoked = {uIssued[1].handle}
  /\ HostResolve(uStore, uIssued[1].handle) = Null
  /\ HostResolve(uStore, uIssued[2].handle) = Buf(uIssued[2].blob.bytes)

\* ------------------------------------------------------ image pipeline

PngType == <<105, 109, 97, 103, 101, 47, 112, 110, 103>>          \* "image/png"
JpegType == <<105, 109, 97, 103, 101, 47, 106, 112, 101, 103>>    \* "image/jpeg"

Img(pixels) == [kind |-> "img", data |-> pixels]
Canvas(pixels) == [kind |-> "canvas", data |-> pixels]
BlobVal(b) == [kind |-> "blob", data |-> [type |-> b.type, bytes |-> b.bytes]]

Event(ev, type, quality, val, err) ==
  [ev |-> ev, type |-> type, quality |-> quality, val |-> val, err |-> err]

\* the host encodes to the requested type when it supports it, else to PNG
HostEffectiveType(type) == IF type = JpegType THEN JpegType ELSE PngType

\* the encoded file: a signature, then data that depends on the pixels and,
\* for the lossy type, on the quality
HostEncode(pixels, type, quality) ==
  IF HostEffectiveType(type) = JpegType
  THEN <<255, 216>> \o pixels \o <<quality>>
  ELSE <<137, 80>> \o pixels

\* canvas.toDataURL(type, quality)
HostToDataURL(canvas, type, quality) ==
  FormatDataURL(HostEffectiveType(type),
                B64Encode(HostEncode(canvas.data, type, quality)))

\* toDataURL returns the URL, or raises SecurityError on a tainted canvas
HostToDataURLOutcomes(canvas, type, quality) ==
  { [ok |-> TRUE, val |-> HostToDataURL(canvas, type, quality), err |-> ""],
    [ok |-> FALSE, val |-> <<>>, err |-> "SecurityError"] }

\* type = type || 'image/png'
DefaultType(type) == IF type = <<>> THEN PngType ELSE type

\* img.onload = function () { resolve(img) }
LoadImageOnLoad(p, img) == Resolve(p, img)

LoadImageOnError_Resolves(p, e) == Resolve(p, Img(<<>>))

\* img.onerror = reject
LoadImageOnError(p, e) == Reject(p, e)

\* the canvas gets the image's size and the image drawn at (0,0)
imgToCanvas(img) == Canvas(img.data)

canvasToBlob_AlwaysDataURL(env, canvas, type, quality, hostURL) ==
  IF ~hostURL.ok
  THEN [events |-> <<Event("toDataURL", type, quality, Null, hostURL.err)>>,
        promise |-> NoPromise, thrown |-> hostURL.err]
  ELSE LET b == dataURLToBlob(env, hostURL.val)
           ev == <<Event("toDataURL", type, quality, Str(hostURL.val), "")>>
       IN IF b.kind = "blob"
          THEN [events |-> ev, promise |-> Resolve(NewPromise, BlobVal(b)), thrown |-> ""]
          ELSE [events |-> ev, promise |-> NoPromise, thrown |-> b.err]

\* canvasToBlob: the calls it makes on the canvas, the promise it returns,
\* or the error it raises; hostURL is what toDataURL does when called
canvasToBlob(env, canvas, type, quality, hostURL) ==
  IF env.hasToBlob
  THEN [events |-> <<Event("toBlob", type, quality, Null, "")>>,
        promise |-> NewPromise, thrown |-> ""]
  ELSE IF ~hostURL.ok
  THEN [events |-> <<Event("toDataURL", type, quality, Null, hostURL.err)>>,
        promise |-> NoPromise, thrown |-> hostURL.err]
  ELSE LET b == dataURLToBlob(env, hostURL.val)
           ev == <<Event("toDataURL", type, quality, Str(hostURL.val), "")>>
       IN IF b.kind = "blob"
          THEN [events |-> ev, promise |-> Resolve(NewPromise, BlobVal(b)), thrown |-> ""]
          ELSE [events |-> ev, promise |-> NoPromise, thrown |-> b.err]

PixelSample == { <<0>>, <<251, 65>> }
ImgTypeArgs == { <<>>, PngType, JpegType, <<97, 47, 98>> }
QualityArgs == {0, 1}
CrossOriginArgs == {"", "Anonymous"}
ImgErrorSample == {"error-event-1", "error-event-2"}

ImgEnvs ==
  {[blob |-> b.blob, builders |-> b.builders, hasToBlob |-> h] :
     b \in {CanonicalEnv, [blob |-> "TypeError", builders |-> {"WebKitBlobBuilder"}]},
     h \in BOOLEAN}

ImgInit ==
  /\ iEnv \in ImgEnvs
  /\ iOp = "idle"
  /\ iArgs = [type |-> <<>>, quality |-> 0, crossOrigin |-> "", canvas |-> Null]
  /\ pLoad = NoPromise /\ pCanvas = NoPromise /\ pInner = NoPromise /\ pOut = NoPromise
  /\ iLog = <<>>

\* loadImage(src, crossOrigin): one Image is created and its src set
LoadImageStart(crossOrigin) == <<Event("load", <<>>, 0, Null, crossOrigin)>>

CallImgSrc(op) ==
  \E t \in ImgTypeArgs, q \in QualityArgs, c \in CrossOriginArgs :
    /\ iOp = "idle"
    /\ iOp' = op
    /\ iArgs' = [type |-> DefaultType(t), quality |-> q, crossOrigin |-> c, canvas |-> Null]
    /\ iLog' = LoadImageStart(c)
    /\ pLoad' = NewPromise /\ pCanvas' = NewPromise /\ pOut' = NewPromise
    /\ UNCHANGED <<iEnv, pInner>>

CallImgSrcToBlob == CallImgSrc("imgSrcToBlob")

CallImgSrcToDataURL == CallImgSrc("imgSrcToDataURL")

CallCanvasToBlob ==
  \E px \in PixelSample, t \in ImgTypeArgs, q \in QualityArgs :
    \E h \in HostToDataURLOutcomes(Canvas(px), t, q) :
      LET r == canvasToBlob(iEnv, Canvas(px), t, q, h)
      IN /\ iOp = "idle"
         /\ iOp' = IF r.thrown = "" THEN "canvasToBlob" ELSE "canvasToBlobThrew"
         /\ iArgs' = [type |-> t, quality |-> q, crossOrigin |-> "", canvas |-> Canvas(px)]
         /\ iLog' = r.events
         /\ pInner' = r.promise
         /\ UNCHANGED <<iEnv, pLoad, pCanvas, pOut>>

HostImageLoad ==
  \E px \in PixelSample :
    /\ pLoad.state = "pending"
    /\ pLoad' = LoadImageOnLoad(pLoad, Img(px))
    /\ UNCHANGED <<iEnv, iOp, iArgs, pCanvas, pInner, pOut, iLog>>

HostImageError ==
  \E e \in ImgErrorSample :
    /\ pLoad.state = "pending"
    /\ pLoad' = LoadImageOnError(pLoad, e)
    /\ iLog' = Append(iLog, Event("hostError", <<>>, 0, Null, e))
    /\ UNCHANGED <<iEnv, iOp, iArgs, pCanvas, pInner, pOut>>

\* .then(imgToCanvas): runs once the load promise has settled; the host's
\* getContext/drawImage may raise
ThenImgToCanvas ==
  /\ Settled(pLoad) /\ pCanvas.state = "pending"
  /\ IF pLoad.state = "rejected"
     THEN pCanvas' = Reject(pCanvas, pLoad.err) /\ UNCHANGED iLog
     ELSE \E ok \in BOOLEAN :
            /\ iLog' = Append(iLog, Event("rasterize", <<>>, 0, pLoad.val,
                                          IF ok THEN "" ELSE "TypeError"))
            /\ pCanvas' = IF ok THEN Resolve(pCanvas, imgToCanvas(pLoad.val))
                          ELSE Reject(pCanvas, "TypeError")
  /\ UNCHANGED <<iEnv, iOp, iArgs, pLoad, pInner, pOut>>

\* the last .then of imgSrcToDataURL / imgSrcToBlob
ThenEncode ==
  /\ Settled(pCanvas) /\ pOut.state = "pending" /\ pInner.state = "none"
  /\ IF pCanvas.state = "rejected"
     THEN pOut' = Reject(pOut, pCanvas.err) /\ UNCHANGED <<iLog, pInner>>
     ELSE \E h \in HostToDataURLOutcomes(pCanvas.val, iArgs.type, iArgs.quality) :
            IF iOp = "imgSrcToDataURL"
            THEN /\ iLog' = Append(iLog, Event("toDataURL", iArgs.type, iArgs.quality,
                                               IF h.ok THEN Str(h.val) ELSE Null, h.err))
                 /\ pOut' = IF h.ok THEN Resolve(pOut, Str(h.val)) ELSE Reject(pOut, h.err)
                 /\ UNCHANGED pInner
            ELSE LET r == canvasToBlob(iEnv, pCanvas.val, iArgs.type, iArgs.quality, h)
                 IN /\ iLog' = iLog \o r.events
                    /\ pInner' = r.promise
                    /\ pOut' = IF r.thrown = "" THEN pOut ELSE Reject(pOut, r.thrown)
  /\ UNCHANGED <<iEnv, iOp, iArgs, pLoad, pCanvas>>

\* the host calls the toBlob callback once, with the blob or with null
HostToBlobCallback ==
  \E delivered \in BOOLEAN :
    LET cv == IF iOp = "canvasToBlob" THEN iArgs.canvas ELSE pCanvas.val
        v == IF delivered
             THEN BlobVal([type |-> HostEffectiveType(iArgs.type),
                           bytes |-> HostEncode(cv.data, iArgs.type, iArgs.quality)])
             ELSE Null
    IN /\ pInner.state = "pending"
       /\ pInner' = Resolve(pInner, v)
       /\ iLog' = Append(iLog, Event("callback", <<>>, 0, v, ""))
       /\ UNCHANGED <<iEnv, iOp, iArgs, pLoad, pCanvas, pOut>>

\* the promise returned by the handler settles the promise of the chain
AdoptInner ==
  /\ iOp = "imgSrcToBlob" /\ Settled(pInner) /\ pOut.state = "pending"
  /\ pOut' = IF pInner.state = "fulfilled" THEN Resolve(pOut, pInner.val)
             ELSE Reject(pOut, pInner.err)
  /\ UNCHANGED <<iEnv, iOp, iArgs, pLoad, pCanvas, pInner, iLog>>

InitImg == CodecIdle /\ CreateIdle /\ ReaderIdle /\ UrlIdle /\ ImgInit
NextImg ==
  \/ CallImgSrcToBlob /\ UNCHANGED <<codecVars, createVars, readerVars, urlVars>>
  \/ CallImgSrcToDataURL /\ UNCHANGED <<codecVars, createVars, readerVars, urlVars>>
  \/ CallCanvasToBlob /\ UNCHANGED <<codecVars, createVars, readerVars, urlVars>>
  \/ HostImageLoad /\ UNCHANGED <<codecVars, createVars, readerVars, urlVars>>
  \/ HostImageError /\ UNCHANGED <<codecVars, createVars, readerVars, urlVars>>
  \/ ThenImgToCanvas /\ UNCHANGED <<codecVars, createVars, readerVars, urlVars>>
  \/ ThenEncode /\ UNCHANGED <<codecVars, createVars, readerVars, urlVars>>
  \/ HostToBlobCallback /\ UNCHANGED <<codecVars, createVars, readerVars, urlVars>>
  \/ AdoptInner /\ UNCHANGED <<codecVars, createVars, readerVars, urlVars>>
SpecImg == InitImg /\ [][NextImg]_vars

StageEvents == SelectSeq(iLog, LAMBDA e : e.ev \in {"load", "rasterize", "toBlob", "toDataURL"})
EventsNamed(name) == SelectSeq(iLog, LAMBDA e : e.ev = name)

\* C8: in imgSrcToBlob and imgSrcToDataURL the loader is started exactly
\* once, the stages start in the order load, rasterize, re-encode, rasterize
\* only after the load has succeeded and re-encode only after rasterize has
\* succeeded; after a failure signal of the host loader neither later stage
\* has started and every promise of the chain that has settled is rejected
\* with that signal.
C8_SequentialStages ==
  iOp \in {"imgSrcToBlob", "imgSrcToDataURL"} =>
    /\ Len(EventsNamed("load")) = 1
    /\ Len(StageEvents) <= 3
    /\ StageEvents[1].ev = "load"
    /\ Len(StageEvents) >= 2 =>
         StageEvents[2].ev = "rasterize" /\ pLoad.state = "fulfilled"
    /\ Len(StageEvents) >= 3 =>
         /\ StageEvents[3].ev \in {"toBlob", "toDataURL"}
         /\ StageEvents[2].err = "" /\ pCanvas.state = "fulfilled"
    /\ \A i \in 1..Len(iLog) : iLog[i].ev = "hostError" =>
         /\ Len(StageEvents) = 1
         /\ pLoad.state = "rejected" /\ pLoad.err = iLog[i].err
         /\ Settled(pCanvas) => pCanvas.state = "rejected" /\ pCanvas.err = iLog[i].err
         /\ Settled(pOut) => pOut.state = "rejected" /\ pOut.err = iLog[i].err

C8_Witness ==
  /\ iOp = "imgSrcToBlob"
  /\ \E i \in 1..Len(iLog) : iLog[i].ev = "hostError" /\ iLog[i].err = "error-event-2"
  /\ pOut.state = "rejected" /\ pOut.err = "error-event-2"

C8_WitnessOrder ==
  /\ iOp = "imgSrcToDataURL" /\ Len(StageEvents) = 3 /\ pOut.state = "fulfilled"

CanvasToBlobRan ==
  \/ iOp \in {"canvasToBlob", "canvasToBlobThrew"}
  \/ iOp = "imgSrcToBlob" /\ Len(StageEvents) = 3

CanvasGiven == IF iOp = "imgSrcToBlob" THEN pCanvas.val ELSE iArgs.canvas

\* C10: each canvasToBlob call runs exactly one encode path.  With a toBlob
\* primitive: toBlob is called once with (type, quality), toDataURL never,
\* the promise is pending until the host's callback fires and is then
\* fulfilled with what the callback delivered.  Without: toDataURL(type,
\* quality) is called once, toBlob never, and when it returns a URL the
\* promise is fulfilled with a binary object that has the URL's content type
\* and the bytes its base64 segment encodes.
C10_OneEncodePath ==
  CanvasToBlobRan =>
    LET tb == EventsNamed("toBlob")
        td == EventsNamed("toDataURL")
        cb == EventsNamed("callback")
    IN IF iEnv.hasToBlob
       THEN /\ Len(tb) = 1 /\ Len(td) = 0 /\ Len(cb) <= 1
            /\ tb[1].type = iArgs.type /\ tb[1].quality = iArgs.quality
            /\ Len(cb) = 0 => pInner.state = "pending"
            /\ Len(cb) = 1 =>
                 /\ pInner.state = "fulfilled"
                 /\ pInner.val.kind = cb[1].val.kind
                 /\ pInner.val.data = cb[1].val.data
       ELSE /\ Len(td) = 1 /\ Len(tb) = 0 /\ Len(cb) = 0
            /\ td[1].type = iArgs.type /\ td[1].quality = iArgs.quality
            /\ td[1].err = "" =>
                 /\ pInner.state = "fulfilled"
                 /\ pInner.val.kind = "blob"
                 /\ pInner.val.data.type = HostEffectiveType(iArgs.type)
                 /\ pInner.val.data.bytes =
                      HostEncode(CanvasGiven.data, iArgs.type, iArgs.quality)

C10_Witness ==
  /\ iOp = "canvasToBlob" /\ ~iEnv.hasToBlob
  /\ iArgs.type = JpegType /\ iArgs.quality = 1 /\ Len(iArgs.canvas.data) = 2
  /\ pInner.state = "fulfilled" /\ pInner.val.kind = "blob"
  /\ pInner.val.data.type = JpegType

C10_WitnessToBlob ==
  /\ iOp = "canvasToBlob" /\ iEnv.hasToBlob
  /\ Len(EventsNamed("callback")) = 1 /\ pInner.state = "fulfilled"
  /\ pInner.val.kind = "blob"

====
